---- MODULE Spec2Model ----
(***************************************************************************)
(* QuantumHarmony testnet faucet (src/main.rs): the shared state of the    *)
(* HTTP service (rate-limit map, pending-transaction list, selected        *)
(* validator), the drip handler run by concurrent tasks, validator         *)
(* selection at startup and the health handler.                            *)
(*                                                                         *)
(* A character is a one-character string (one outside ASCII is named by   *)
(* its code point); an Option is a sequence of length at most one;         *)
(* time is counted in ticks, TicksPerSecond to the second.  A u64 is its   *)
(* four 16-bit limbs, least significant first, a u32 its two; a u128       *)
(* amount is its decimal digits.                                           *)
(***************************************************************************)
EXTENDS Integers, Sequences, FiniteSets, TLC

(***************************************************************************)
(* Program constants                                                       *)
(***************************************************************************)
\* u128, written in decimal digits
DRIP_AMOUNT == "10000000000000"
RATE_LIMIT_SECONDS == 60
MAX_PENDING_TXS == 100
ADDRESS_LEN == 48
GENESIS_LOG_PREFIX == 16
VALIDATORS == <<"http://51.79.26.123:9944", "http://51.79.26.168:9944", "http://209.38.225.4:9944">>
ALICE_ADDRESS == "5HDjAbVHMuJzezSccj6eFrEA6nKjonrFRm8h7aTiJXSHP5Qi"

(***************************************************************************)
(* Bounds of the model                                                     *)
(***************************************************************************)
\* resolution of the clock: ticks per second (timestamps are finer than a second)
TicksPerSecond == 2
\* number of drip requests received in one behaviour; each is served by a task
\* of its own, so that all of them can be in flight at once
MaxRequests == 2

\* the tasks, numbered in the order their requests arrive
Handlers == 1..MaxRequests

None == << >>
Some(x) == <<x>>

(***************************************************************************)
(* Text: trimming, byte length, prefix test.  A text is the sequence of    *)
(* its runs <<c, n>>, n >= 1 times the character c, neighbouring runs of   *)
(* different characters.                                                   *)
(***************************************************************************)
WhiteSpace == {" ", "\t", "\n"}

\* bytes of the UTF-8 encoding of a character
Utf8Len(c) == IF c = "U+00E9" THEN 2 ELSE 1

RECURSIVE ByteLen(_)
\* str::len: the length in bytes
ByteLen(s) ==
    IF s = << >> THEN 0 ELSE Utf8Len(Head(s)[1]) * Head(s)[2] + ByteLen(Tail(s))

RECURSIVE CharLen(_)
\* the number of characters
CharLen(s) == IF s = << >> THEN 0 ELSE Head(s)[2] + CharLen(Tail(s))

RECURSIVE TrimStart(_)
TrimStart(s) ==
    IF s # << >> /\ Head(s)[1] \in WhiteSpace THEN TrimStart(Tail(s)) ELSE s

RECURSIVE TrimEnd(_)
TrimEnd(s) ==
    IF s # << >> /\ s[Len(s)][1] \in WhiteSpace
    THEN TrimEnd(SubSeq(s, 1, Len(s) - 1))
    ELSE s

\* str::trim: leading and trailing white space removed
Trim(s) == TrimEnd(TrimStart(s))

\* str::starts_with(char)
StartsWith(s, c) == s # << >> /\ Head(s)[1] = c

\* IsValidAddress without the test of the first character
IsValidAddress_LengthOnly(address) == ByteLen(address) = ADDRESS_LEN

\* the format test of drip: the request is refused 400 unless this holds
IsValidAddress(address) ==
    StartsWith(address, "5") /\ ByteLen(address) = ADDRESS_LEN

(***************************************************************************)
(* Request addresses the callers send                                      *)
(***************************************************************************)
AddrA == << <<"5", 1>>, <<"A", ADDRESS_LEN - 1>> >>
\* 48 bytes in 47 characters
AddrM == << <<"5", 1>>, <<"U+00E9", 1>>, <<"B", ADDRESS_LEN - 3>> >>
AddrPadded == << <<" ", 1>> >> \o AddrA \o << <<"\n", 1>> >>
AddrShort == << <<"5", 1>>, <<"A", ADDRESS_LEN - 2>> >>
AddrNo5 == << <<"A", ADDRESS_LEN>> >>
\* 48 characters in 49 bytes
AddrWide == << <<"5", 1>>, <<"U+00E9", 1>>, <<"B", ADDRESS_LEN - 2>> >>

RequestAddresses == {AddrA, AddrM, AddrPadded, AddrShort, AddrNo5, AddrWide}

(***************************************************************************)
(* Time                                                                    *)
(***************************************************************************)
Window == RATE_LIMIT_SECONDS * TicksPerSecond

\* the instants at which the clock is read
ClockValues == {0, Window - 1, Window}

\* Duration::num_seconds: whole seconds, rounded towards zero
NumSeconds(d) ==
    IF d >= 0 THEN d \div TicksPerSecond ELSE -((-d) \div TicksPerSecond)

\* DateTime::signed_duration_since
SignedDurationSince(now, then) == now - then

(***************************************************************************)
(* JSON-RPC replies of the validator                                       *)
(***************************************************************************)
U64(l0, l1, l2, l3) == <<l0, l1, l2, l3>>
U32(l0, l1) == <<l0, l1>>

\* a JSON value: its kind t, its text s when a string, its value n when a
\* number as_u64 accepts, and of an object the members "hash" and "number"
\* when they are strings
JNull == [t |-> "null", s |-> "", n |-> U64(0, 0, 0, 0), hash |-> None, number |-> None]
JStr(s) == [t |-> "str", s |-> s, n |-> U64(0, 0, 0, 0), hash |-> None, number |-> None]
JNum(n) == [t |-> "num", s |-> "", n |-> n, hash |-> None, number |-> None]
JObj(hash) ==
    [t |-> "obj", s |-> "", n |-> U64(0, 0, 0, 0), hash |-> hash, number |-> None]
JHeader(number) ==
    [t |-> "obj", s |-> "", n |-> U64(0, 0, 0, 0), hash |-> None, number |-> number]

\* the request could not be sent, timed out, or the body is no JSON
NoReply == [ok |-> FALSE, error |-> None, result |-> JNull]
\* a body with an "error" member; message is its "message" when that is a string
ErrorReply(message) == [ok |-> TRUE, error |-> Some(message), result |-> JNull]
ResultReply(result) == [ok |-> TRUE, error |-> None, result |-> result]

Ok(v) == [ok |-> TRUE, val |-> v, err |-> ""]
Err(e) == [ok |-> FALSE, val |-> 0, err |-> e]

UnwrapOr(opt, default) == IF opt = None THEN default ELSE opt[1]

\* Display of the reqwest error that send() or json() returned
TransportError == "error sending request"

\* u64 as u32: the low 32 bits
AsU32(n) == U32(n[1], n[2])

\* get_genesis_hash, from the reply to gateway_genesisHash
GetGenesisHash(reply) ==
    IF ~reply.ok THEN Err(TransportError)
    ELSE IF reply.error # None
    THEN Err("RPC error: " \o UnwrapOr(reply.error[1], "Unknown"))
    ELSE IF reply.result.t = "str" THEN Ok(reply.result.s)
    ELSE Err("Failed to get genesis hash")

\* GetNonce without the test for an "error" member
GetNonce_ErrorUnchecked(reply) ==
    IF ~reply.ok THEN Err(TransportError)
    ELSE IF reply.result.t = "num" THEN Ok(AsU32(reply.result.n))
    ELSE Ok(U32(0, 0))

\* get_nonce, from the reply to gateway_nonce
GetNonce(reply) ==
    IF ~reply.ok THEN Err(TransportError)
    ELSE IF reply.error # None
    THEN Err("RPC error: " \o UnwrapOr(reply.error[1], "Unknown"))
    ELSE IF reply.result.t = "num" THEN Ok(AsU32(reply.result.n))
    ELSE Ok(U32(0, 0))

\* SubmitResult without the test for an "error" member
SubmitResult_ErrorUnchecked(reply) ==
    IF ~reply.ok THEN Err(TransportError)
    ELSE IF reply.result.t = "obj" /\ reply.result.hash # None
    THEN Ok(reply.result.hash[1])
    ELSE IF reply.result.t = "str" THEN Ok(reply.result.s)
    ELSE Err("No transaction hash returned: " \o reply.result.t)

\* the end of submit_transfer, from the reply to gateway_submit
SubmitResult(reply) ==
    IF ~reply.ok THEN Err(TransportError)
    ELSE IF reply.error # None
    THEN Err("RPC error: " \o UnwrapOr(reply.error[1], "Unknown error"))
    ELSE IF reply.result.t = "obj" /\ reply.result.hash # None
    THEN Ok(reply.result.hash[1])
    ELSE IF reply.result.t = "str" THEN Ok(reply.result.s)
    ELSE Err("No transaction hash returned: " \o reply.result.t)

\* &genesis_hash[..16], evaluated when the INFO event is enabled
GenesisPrefixPanics(genesis_hash) == Len(genesis_hash) < GENESIS_LOG_PREFIX

\* the replies one validator gives while the faucet serves concurrent requests
ServingGenesisReplies ==
    { NoReply, ErrorReply(Some("bad origin")), ResultReply(JStr("0x1a2b3c4d5e6f70")) }

ServingNonceReplies ==
    { NoReply, ErrorReply(Some("unknown account")), ResultReply(JNum(U64(7, 0, 0, 0))) }

ServingSubmitReplies ==
    { NoReply, ErrorReply(Some("pool full")), ResultReply(JObj(Some("0xfeed"))) }

\* every shape of reply the code tells apart
GenesisReplies ==
    { NoReply, ErrorReply(Some("bad origin")), ErrorReply(None),
      ResultReply(JStr("0x1a2b3c4d5e6f70")), ResultReply(JStr("0xab")),
      ResultReply(JStr("")), ResultReply(JNum(U64(5, 0, 0, 0))),
      ResultReply(JNull) }

NonceReplies ==
    { NoReply, ErrorReply(Some("unknown account")),
      ResultReply(JNum(U64(7, 0, 0, 0))), ResultReply(JNum(U64(7, 0, 1, 0))),
      ResultReply(JNum(U64(65535, 65535, 0, 0))), ResultReply(JStr("7")),
      ResultReply(JNull) }

SubmitReplies ==
    { NoReply, ErrorReply(Some("pool full")), ErrorReply(None),
      ResultReply(JObj(Some("0xfeed"))), ResultReply(JStr("0xfeed")),
      ResultReply(JObj(None)) }

(***************************************************************************)
(* State                                                                   *)
(***************************************************************************)
VARIABLES
    clock,              \* Utc::now()
    rate_limits,        \* AppState.rate_limits: address -> time of the last drip
    pending_txs,        \* AppState.pending_txs
    active_validator,   \* AppState.active_validator
    drips,              \* the drip tasks: position, locals, response
    startup,            \* main and its find_active_validator
    health,             \* the health_check task
    status              \* the status task

vars == <<clock, rate_limits, pending_txs, active_validator, drips, startup, health,
          status>>

PendingTx(to, amount, timestamp) ==
    [to |-> to, amount |-> amount, timestamp |-> timestamp]

DripResponse(code, success, message, tx_hash, amount) ==
    [status |-> code, success |-> success, message |-> message,
     tx_hash |-> tx_hash, amount |-> amount]

\* a decimal number divided by 10^k
DivPow10(digits, k) ==
    IF Len(digits) > k THEN SubSeq(digits, 1, Len(digits) - k) ELSE "0"

\* format!("{} QHT", DRIP_AMOUNT / 1_000_000_000_000)
FormatAmount(amount) == DivPow10(amount, 12) \o " QHT"

EmptyMap == [a \in {} |-> 0]

\* DashMap::get
Get(map, key) == IF key \in DOMAIN map THEN Some(map[key]) ELSE None

\* DashMap::insert
Insert(map, key, value) == (key :> value) @@ map

\* a task that holds no request
IdleTask ==
    [pc |-> "idle", request |-> << >>, address |-> << >>, now |-> 0,
     validator |-> "", genesis_hash |-> "", nonce |-> U32(0, 0), tx_hash |-> "",
     response |-> None, calls |-> << >>, started_full |-> FALSE, wrote |-> FALSE]

\* the handler returns: its locals are dropped and the response is sent
Respond(task, response) ==
    [task EXCEPT !.pc = "done", !.response = Some(response),
                 !.address = << >>, !.now = 0, !.validator = "",
                 !.genesis_hash = "", !.nonce = U32(0, 0), !.tx_hash = ""]

\* the "params" of gateway_submit; the secret key, a constant, is left out
SubmitParams(to, amount, nonce, genesis_hash) ==
    [from |-> ALICE_ADDRESS, to |-> to, amount |-> amount, nonce |-> nonce,
     genesisHash |-> genesis_hash]

\* one JSON-RPC exchange with the validator: the POST, its "params" and what
\* came back
Call(task, method, params, reply) ==
    [task EXCEPT !.calls = Append(@, [url |-> task.validator, method |-> method,
                                      params |-> params, reply |-> reply])]

\* RateLimited with <= for <
RateLimited_Inclusive(last_request, now) ==
    NumSeconds(SignedDurationSince(now, last_request)) <= RATE_LIMIT_SECONDS

\* the elapsed.num_seconds() < RATE_LIMIT_SECONDS test of drip
RateLimited(last_request, now) ==
    NumSeconds(SignedDurationSince(now, last_request)) < RATE_LIMIT_SECONDS

\* WaitTime that reports the seconds elapsed, not the seconds left
WaitTime_Elapsed(last_request, now) ==
    NumSeconds(SignedDurationSince(now, last_request))

\* wait_time of drip
WaitTime(last_request, now) ==
    RATE_LIMIT_SECONDS - NumSeconds(SignedDurationSince(now, last_request))

\* PendingFull with > for >=
PendingFull_Strict(pending) == Len(pending) > MAX_PENDING_TXS

\* the pending.len() >= MAX_PENDING_TXS test of drip
PendingFull(pending) == Len(pending) >= MAX_PENDING_TXS

(***************************************************************************)
(* POST /drip                                                              *)
(***************************************************************************)
InvalidAddressMessage ==
    "Invalid address format. Must be a valid Substrate address starting with '5'"

RateLimitedMessage(wait_time) ==
    "Rate limited. Please wait " \o ToString(wait_time) \o " seconds"

FailedMessage(e) == "Failed to send transaction: " \o e

\* a request arrives at task h: the address is trimmed and validated, and a
\* valid request reads the clock
DripReceive(h, request) ==
    /\ drips[h].pc = "idle"
    /\ \A g \in Handlers : g < h => drips[g].pc # "idle"
    /\ LET address == Trim(request)
           task == [IdleTask EXCEPT !.request = request, !.address = address,
                                    !.started_full = (Len(pending_txs) >= MAX_PENDING_TXS)]
       IN  drips' = [drips EXCEPT ![h] =
               IF ~IsValidAddress(address)
               THEN Respond(task, DripResponse(400, FALSE, InvalidAddressMessage, None, "0"))
               ELSE [task EXCEPT !.pc = "rate_limit", !.now = clock]]
    /\ UNCHANGED <<clock, rate_limits, pending_txs, active_validator, startup, health, status>>

\* DripRateLimit with the capacity test ahead of the rate-limit test
DripRateLimit_CapacityFirst(h) ==
    /\ drips[h].pc = "rate_limit"
    /\ LET task == drips[h]
           last_request == Get(rate_limits, task.address)
       IN  drips' = [drips EXCEPT ![h] =
               IF PendingFull(pending_txs)
               THEN Respond(task, DripResponse(503, FALSE,
                        "Too many pending transactions. Please try again later.", None, "0"))
               ELSE IF last_request # None /\ RateLimited(last_request[1], task.now)
               THEN Respond(task, DripResponse(429, FALSE,
                        RateLimitedMessage(WaitTime(last_request[1], task.now)), None, "0"))
               ELSE [task EXCEPT !.pc = "pending_limit"]]
    /\ UNCHANGED <<clock, rate_limits, pending_txs, active_validator, startup, health, status>>

\* the rate-limit check: rate_limits.get and the comparison with now
DripRateLimit(h) ==
    /\ drips[h].pc = "rate_limit"
    /\ LET task == drips[h]
           last_request == Get(rate_limits, task.address)
       IN  drips' = [drips EXCEPT ![h] =
               IF last_request # None /\ RateLimited(last_request[1], task.now)
               THEN Respond(task, DripResponse(429, FALSE,
                        RateLimitedMessage(WaitTime(last_request[1], task.now)), None, "0"))
               ELSE [task EXCEPT !.pc = "pending_limit"]]
    /\ UNCHANGED <<clock, rate_limits, pending_txs, active_validator, startup, health, status>>

\* the pending-capacity check under the read lock, then the read of the
\* selected validator
DripPendingLimit(h) ==
    /\ drips[h].pc = "pending_limit"
    /\ drips' = [drips EXCEPT ![h] =
           IF PendingFull(pending_txs)
           THEN Respond(@, DripResponse(503, FALSE,
                    "Too many pending transactions. Please try again later.", None, "0"))
           ELSE [@ EXCEPT !.pc = "genesis_hash", !.validator = active_validator]]
    /\ UNCHANGED <<clock, rate_limits, pending_txs, active_validator, startup, health, status>>

\* submit_transfer, first call: gateway_genesisHash
DripGenesisHash(h, reply) ==
    /\ drips[h].pc = "genesis_hash"
    /\ LET called == Call(drips[h], "gateway_genesisHash", << >>, reply)
           r == GetGenesisHash(reply)
       IN  drips' = [drips EXCEPT ![h] =
               IF r.ok
               THEN [called EXCEPT !.pc = "nonce", !.genesis_hash = r.val]
               ELSE Respond(called, DripResponse(500, FALSE, FailedMessage(r.err), None, "0"))]
    /\ UNCHANGED <<clock, rate_limits, pending_txs, active_validator, startup, health, status>>

\* submit_transfer, second call: gateway_nonce for Alice, then the INFO event
\* that slices the genesis hash
DripNonce(h, reply, info_enabled) ==
    /\ drips[h].pc = "nonce"
    /\ LET called == Call(drips[h], "gateway_nonce", <<ALICE_ADDRESS>>, reply)
           r == GetNonce(reply)
       IN  drips' = [drips EXCEPT ![h] =
               IF ~r.ok
               THEN Respond(called, DripResponse(500, FALSE, FailedMessage(r.err), None, "0"))
               ELSE IF info_enabled /\ GenesisPrefixPanics(called.genesis_hash)
               THEN [called EXCEPT !.pc = "panicked", !.nonce = r.val]
               ELSE [called EXCEPT !.pc = "submit", !.nonce = r.val]]
    /\ UNCHANGED <<clock, rate_limits, pending_txs, active_validator, startup, health, status>>

\* DripSubmit that selects the next validator when the submission failed
DripSubmit_Failover(h, reply) ==
    /\ drips[h].pc = "submit"
    /\ LET called == Call(drips[h], "gateway_submit",
                          <<SubmitParams(drips[h].address, DRIP_AMOUNT,
                                         drips[h].nonce, drips[h].genesis_hash)>>,
                          reply)
           r == SubmitResult(reply)
       IN  /\ drips' = [drips EXCEPT ![h] =
                 IF r.ok
                 THEN [called EXCEPT !.pc = "record", !.tx_hash = r.val]
                 ELSE Respond(called, DripResponse(500, FALSE, FailedMessage(r.err), None, "0"))]
           /\ active_validator' =
                 IF r.ok THEN active_validator
                 ELSE IF active_validator = VALIDATORS[1] THEN VALIDATORS[2] ELSE VALIDATORS[1]
    /\ UNCHANGED <<clock, rate_limits, pending_txs, startup, health, status>>

\* submit_transfer, third call: gateway_submit and the extraction of the hash
DripSubmit(h, reply) ==
    /\ drips[h].pc = "submit"
    /\ LET called == Call(drips[h], "gateway_submit",
                          <<SubmitParams(drips[h].address, DRIP_AMOUNT,
                                         drips[h].nonce, drips[h].genesis_hash)>>,
                          reply)
           r == SubmitResult(reply)
       IN  drips' = [drips EXCEPT ![h] =
               IF r.ok
               THEN [called EXCEPT !.pc = "record", !.tx_hash = r.val]
               ELSE Respond(called, DripResponse(500, FALSE, FailedMessage(r.err), None, "0"))]
    /\ UNCHANGED <<clock, rate_limits, pending_txs, active_validator, startup, health, status>>

\* DripRecord with the address as the caller sent it for key
DripRecord_RawKey(h) ==
    /\ drips[h].pc = "record"
    /\ rate_limits' = Insert(rate_limits, drips[h].request, drips[h].now)
    /\ drips' = [drips EXCEPT ![h].pc = "push", ![h].wrote = TRUE]
    /\ UNCHANGED <<clock, pending_txs, active_validator, startup, health, status>>

\* Ok arm: rate_limits.insert(address, now)
DripRecord(h) ==
    /\ drips[h].pc = "record"
    /\ rate_limits' = Insert(rate_limits, drips[h].address, drips[h].now)
    /\ drips' = [drips EXCEPT ![h].pc = "push", ![h].wrote = TRUE]
    /\ UNCHANGED <<clock, pending_txs, active_validator, startup, health, status>>

\* DripPush that drops the oldest entry of a full list
DripPush_Evicting(h) ==
    /\ drips[h].pc = "push"
    /\ pending_txs' = Append(IF Len(pending_txs) >= MAX_PENDING_TXS
                             THEN Tail(pending_txs) ELSE pending_txs,
                             PendingTx(drips[h].address, DRIP_AMOUNT, drips[h].now))
    /\ drips' = [drips EXCEPT ![h] =
           Respond(@, DripResponse(200, TRUE, "Tokens sent successfully!",
                                   Some(drips[h].tx_hash), FormatAmount(DRIP_AMOUNT)))]
    /\ UNCHANGED <<clock, rate_limits, active_validator, startup, health, status>>

\* Ok arm: pending.push under the write lock, then the 200 response
DripPush(h) ==
    /\ drips[h].pc = "push"
    /\ pending_txs' = Append(pending_txs,
                             PendingTx(drips[h].address, DRIP_AMOUNT, drips[h].now))
    /\ drips' = [drips EXCEPT ![h] =
           Respond(@, DripResponse(200, TRUE, "Tokens sent successfully!",
                                   Some(drips[h].tx_hash), FormatAmount(DRIP_AMOUNT)))]
    /\ UNCHANGED <<clock, rate_limits, active_validator, startup, health, status>>

\* time passes
Tick(t) ==
    /\ t > clock
    /\ clock' = t
    /\ UNCHANGED <<rate_limits, pending_txs, active_validator, drips, startup, health, status>>

(***************************************************************************)
(* Validator probes: find_active_validator at startup and GET /health      *)
(***************************************************************************)
\* what a system_health POST can come to: send() fails (refused, timed out),
\* a response with a status outside 2xx, a response with a 2xx status
ProbeOutcomes == {"send_error", "http_error", "success"}

\* ProbeSucceeded without the test of the status
ProbeSucceeded_AnyResponse(outcome) == outcome # "send_error"

\* if let Ok(resp) = ...send().await { if resp.status().is_success() {
ProbeSucceeded(outcome) == outcome = "success"

Probe(url, outcome) == [url |-> url, method |-> "system_health", outcome |-> outcome]

\* the fallback of find_active_validator
DefaultValidator == VALIDATORS[1]

\* one turn of the loop of find_active_validator; when it returns, main
\* creates the state around the returned endpoint and starts to serve
StartupProbe(outcome) ==
    /\ startup.pc = "find_active_validator"
    /\ LET i == startup.i
           probed == [startup EXCEPT !.probes = Append(@, Probe(VALIDATORS[i], outcome))]
       IN  IF ProbeSucceeded(outcome)
           THEN /\ startup' = [probed EXCEPT !.pc = "serving"]
                /\ active_validator' = VALIDATORS[i]
           ELSE IF i = Len(VALIDATORS)
           THEN /\ startup' = [probed EXCEPT !.pc = "serving"]
                /\ active_validator' = DefaultValidator
           ELSE /\ startup' = [probed EXCEPT !.i = i + 1]
                /\ UNCHANGED active_validator
    /\ UNCHANGED <<clock, rate_limits, pending_txs, drips, health, status>>

\* value of a hexadecimal digit, -1 for any other character
HexDigit(c) ==
    CASE c = "0" -> 0 [] c = "1" -> 1 [] c = "2" -> 2 [] c = "3" -> 3
      [] c = "4" -> 4 [] c = "5" -> 5 [] c = "6" -> 6 [] c = "7" -> 7
      [] c = "8" -> 8 [] c = "9" -> 9
      [] c \in {"a", "A"} -> 10 [] c \in {"b", "B"} -> 11 [] c \in {"c", "C"} -> 12
      [] c \in {"d", "D"} -> 13 [] c \in {"e", "E"} -> 14 [] c \in {"f", "F"} -> 15
      [] OTHER -> -1

RECURSIVE HexValue(_, _)
\* the digits of s read after the value acc, None at a character that is no digit
HexValue(s, acc) ==
    IF s = "" THEN Some(acc)
    ELSE LET d == HexDigit(SubSeq(s, 1, 1)) IN
         IF d < 0 THEN None ELSE HexValue(SubSeq(s, 2, Len(s)), acc * 16 + d)

\* u64::from_str_radix(s, 16).ok(), for the short texts the model sends
FromStrRadix16(s) == IF s = "" THEN None ELSE HexValue(s, 0)

\* &number[2..] panics when the text is shorter than two bytes
SlicePanics(number) == Len(number) < 2

\* block_height after the reply to chain_getHeader
BlockHeight(reply) ==
    IF ~reply.ok \/ reply.result.number = None THEN None
    ELSE FromStrRadix16(SubSeq(reply.result.number[1], 3, Len(reply.result.number[1])))

HeaderPanics(reply) ==
    reply.ok /\ reply.result.number # None /\ SlicePanics(reply.result.number[1])

HeaderReplies ==
    { NoReply, ResultReply(JNull), ResultReply(JHeader(Some("0x1f"))),
      ResultReply(JHeader(Some(""))), ResultReply(JHeader(Some("7"))),
      ResultReply(JHeader(Some("0x"))), ResultReply(JHeader(Some("1f2a"))),
      ResultReply(JHeader(Some("0xzz"))) }

HealthResponse(healthy, validators_online, block_height) ==
    [healthy |-> healthy, validators_online |-> validators_online,
     block_height |-> block_height]

\* HealthStatus that always answers 200
HealthStatus_AlwaysOk(healthy) == 200

\* the status health_check sends with its body
HealthStatus(healthy) == IF healthy THEN 200 ELSE 503

IdleHealth ==
    [pc |-> "idle", validator |-> "", i |-> 1, validators_online |-> 0,
     block_height |-> None, probes |-> << >>, headers |-> << >>,
     status |-> 0, response |-> None]

\* the end of the loop body: the next validator, or the response after the last
HealthAdvance(task) ==
    IF task.i < Len(VALIDATORS) THEN [task EXCEPT !.i = task.i + 1]
    ELSE [task EXCEPT !.pc = "done",
                      !.status = HealthStatus(task.validators_online > 0),
                      !.response = Some(HealthResponse(task.validators_online > 0,
                                                       task.validators_online,
                                                       task.block_height))]

\* GET /health arrives: the selected validator is read and the counters are set
HealthReceive ==
    /\ startup.pc = "serving"
    /\ health.pc \in {"idle", "done"}
    /\ health' = [IdleHealth EXCEPT !.pc = "probe", !.validator = active_validator]
    /\ UNCHANGED <<clock, rate_limits, pending_txs, active_validator, drips, startup, status>>

\* the system_health probe of validator i
HealthProbe(outcome) ==
    /\ health.pc = "probe"
    /\ LET probed == [health EXCEPT !.probes = Append(@, Probe(VALIDATORS[health.i], outcome))]
           counted == [probed EXCEPT !.validators_online = @ + 1]
       IN  health' =
               IF ~ProbeSucceeded(outcome) THEN HealthAdvance(probed)
               ELSE IF counted.block_height = None THEN [counted EXCEPT !.pc = "header"]
               ELSE HealthAdvance(counted)
    /\ UNCHANGED <<clock, rate_limits, pending_txs, active_validator, drips, startup, status>>

\* chain_getHeader at validator i, asked while no block height is known
HealthHeader(reply) ==
    /\ health.pc = "header"
    /\ LET called == [health EXCEPT !.headers = Append(@, [url |-> VALIDATORS[health.i],
                                                            method |-> "chain_getHeader",
                                                            reply |-> reply])]
       IN  health' =
               IF HeaderPanics(reply) THEN [called EXCEPT !.pc = "panicked"]
               ELSE HealthAdvance([called EXCEPT !.pc = "probe",
                                                 !.block_height = BlockHeight(reply)])
    /\ UNCHANGED <<clock, rate_limits, pending_txs, active_validator, drips, startup, status>>

(***************************************************************************)
(* GET /status                                                             *)
(***************************************************************************)
StatusResponse(running, validator, pending, drip_amount, rate_limit_seconds) ==
    [status |-> running, active_validator |-> validator, pending_txs |-> pending,
     drip_amount |-> drip_amount, rate_limit_seconds |-> rate_limit_seconds]

IdleStatus == [pc |-> "idle", validator |-> "", response |-> None]

\* GET /status arrives: the selected validator is read under its read lock
StatusReceive ==
    /\ startup.pc = "serving"
    /\ status.pc \in {"idle", "done"}
    /\ status' = [IdleStatus EXCEPT !.pc = "pending", !.validator = active_validator]
    /\ UNCHANGED <<clock, rate_limits, pending_txs, active_validator, drips, startup, health>>

\* the length of the pending list is read under its read lock and the
\* response is sent
StatusPending ==
    /\ status.pc = "pending"
    /\ status' = [status EXCEPT
           !.pc = "done", !.validator = "",
           !.response = Some(StatusResponse("running", status.validator, Len(pending_txs),
                                            FormatAmount(DRIP_AMOUNT), RATE_LIMIT_SECONDS))]
    /\ UNCHANGED <<clock, rate_limits, pending_txs, active_validator, drips, startup, health>>

(***************************************************************************)
(* The faucet from the start of main: validator selection, then health     *)
(* checks.                                                                 *)
(***************************************************************************)
InitMain ==
    /\ clock = 0
    /\ rate_limits = EmptyMap
    /\ pending_txs = << >>
    /\ active_validator = ""
    /\ drips = [h \in Handlers |-> IdleTask]
    /\ startup = [pc |-> "find_active_validator", i |-> 1, probes |-> << >>]
    /\ health = IdleHealth
    /\ status = IdleStatus

NextProbe ==
    \/ \E outcome \in ProbeOutcomes : StartupProbe(outcome)
    \/ HealthReceive
    \/ \E outcome \in ProbeOutcomes : HealthProbe(outcome)
    \/ \E reply \in HeaderReplies : HealthHeader(reply)

SpecProbe == InitMain /\ [][NextProbe]_vars

(***************************************************************************)
(* The serving faucet, as main leaves it when it selects the first         *)
(* validator.  It starts either fresh from main or after it has served one *)
(* address once per rate-limit window, the last time just now.             *)
(***************************************************************************)
HistoryLengths == {0, MAX_PENDING_TXS - 1}

History(n) ==
    [i \in 1..n |-> PendingTx(AddrA, DRIP_AMOUNT, (i - n) * Window)]

Init ==
    /\ clock = 0
    /\ \E n \in HistoryLengths :
          /\ pending_txs = History(n)
          /\ rate_limits = IF n = 0 THEN EmptyMap ELSE Insert(EmptyMap, AddrA, 0)
    /\ active_validator = VALIDATORS[1]
    /\ drips = [h \in Handlers |-> IdleTask]
    /\ startup = [pc |-> "serving", i |-> 1,
                  probes |-> <<[url |-> VALIDATORS[1], method |-> "system_health",
                                outcome |-> "success"]>>]
    /\ health = IdleHealth
    /\ status = IdleStatus

Next ==
    \/ \E h \in Handlers, request \in RequestAddresses : DripReceive(h, request)
    \/ \E h \in Handlers : DripRateLimit(h)
    \/ \E h \in Handlers : DripPendingLimit(h)
    \/ \E h \in Handlers, reply \in ServingGenesisReplies : DripGenesisHash(h, reply)
    \/ \E h \in Handlers, reply \in ServingNonceReplies, info_enabled \in BOOLEAN :
          DripNonce(h, reply, info_enabled)
    \/ \E h \in Handlers, reply \in ServingSubmitReplies : DripSubmit(h, reply)
    \/ \E h \in Handlers : DripRecord(h)
    \/ \E h \in Handlers : DripPush(h)
    \/ \E t \in ClockValues : Tick(t)

Spec == Init /\ [][Next]_vars

(***************************************************************************)
(* The whole service: main selects the validator, then the router serves   *)
(* drip, status and health requests side by side.  Every validator is      *)
(* either down or up when probed, and header requests go unanswered.       *)
(***************************************************************************)
MainProbeOutcomes == {"send_error", "success"}

MainRequests == {AddrA}

NextMain ==
    \/ \E outcome \in MainProbeOutcomes : StartupProbe(outcome)
    \/ \E h \in Handlers, request \in MainRequests :
          startup.pc = "serving" /\ DripReceive(h, request)
    \/ \E h \in Handlers : DripRateLimit(h)
    \/ \E h \in Handlers : DripPendingLimit(h)
    \/ \E h \in Handlers, reply \in ServingGenesisReplies : DripGenesisHash(h, reply)
    \/ \E h \in Handlers, reply \in ServingNonceReplies : DripNonce(h, reply, TRUE)
    \/ \E h \in Handlers, reply \in ServingSubmitReplies : DripSubmit(h, reply)
    \/ \E h \in Handlers : DripRecord(h)
    \/ \E h \in Handlers : DripPush(h)
    \/ StatusReceive
    \/ StatusPending
    \/ HealthReceive
    \/ HealthProbe("success")
    \/ HealthHeader(NoReply)

SpecMain == InitMain /\ [][NextMain]_vars

(***************************************************************************)
(* One drip request at a time, against every shape of reply the code tells *)
(* apart.                                                                  *)
(***************************************************************************)
NextSubmit ==
    \/ \E request \in RequestAddresses : DripReceive(1, request)
    \/ DripRateLimit(1)
    \/ DripPendingLimit(1)
    \/ \E reply \in GenesisReplies : DripGenesisHash(1, reply)
    \/ \E reply \in NonceReplies, info_enabled \in BOOLEAN :
          DripNonce(1, reply, info_enabled)
    \/ \E reply \in SubmitReplies : DripSubmit(1, reply)
    \/ DripRecord(1)
    \/ DripPush(1)
    \/ \E t \in ClockValues : Tick(t)

SpecSubmit == Init /\ [][NextSubmit]_vars

(***************************************************************************)
(* Properties of POST /drip                                                *)
(***************************************************************************)
Done(h) == drips[h].pc = "done"
Status(h) == drips[h].response[1].status

\* the step of task h that leaves position pc
Leaves(h, pc) == drips[h].pc = pc /\ drips'[h].pc # pc

Abs(d) == IF d >= 0 THEN d ELSE -d

\* the reply is a transport failure or carries an "error" member
Failed(reply) == ~reply.ok \/ reply.error # None

\* C1: for one address, among the drip requests in flight at once, exactly
\* one succeeds per rate-limit window: no two recorded drips to one address
\* have request times less than 60 seconds apart.
C1_OneDripPerWindow ==
    \A i, j \in DOMAIN pending_txs :
        (i < j /\ pending_txs[i].to = pending_txs[j].to)
            => Abs(pending_txs[j].timestamp - pending_txs[i].timestamp) >= Window

\* C2: once an address has a recorded drip, a request for it whose time is
\* less than 60 seconds after the recorded time is answered 429 with the wait
\* W = 60 - whole elapsed seconds, 1 <= W <= 60, and changes neither the
\* pending list nor the rate-limit map.
C2_RateLimitedWithinWindow ==
    [][\A h \in Handlers :
        LET a == drips[h].address
            elapsed == drips[h].now - rate_limits[a]
            W == 60 - (elapsed \div TicksPerSecond)
        IN  (Leaves(h, "rate_limit") /\ a \in DOMAIN rate_limits
                /\ 0 <= elapsed /\ elapsed < 60 * TicksPerSecond)
            => /\ drips'[h].pc = "done"
               /\ drips'[h].response[1].status = 429
               /\ 1 <= W /\ W <= 60
               /\ drips'[h].response[1].message =
                      "Rate limited. Please wait " \o ToString(W) \o " seconds"
               /\ pending_txs' = pending_txs
               /\ rate_limits' = rate_limits]_vars

\* a drip was refused 429 with the shortest wait, one second
C2_Witness ==
    \E h \in Handlers :
        /\ Done(h) /\ Status(h) = 429
        /\ drips[h].response[1].message = "Rate limited. Please wait 1 seconds"

\* C3: a request for a valid address with no recorded drip, or whose recorded
\* drip is 60 seconds or more before the request time, passes the rate-limit
\* check; past the capacity check and with every upstream call answered by a
\* result it stores its own time for the address and is answered 200.
C3_AllowedAfterWindow ==
    [][\A h \in Handlers :
        LET a == drips[h].address IN
        /\ (Leaves(h, "rate_limit")
              /\ (a \notin DOMAIN rate_limits
                    \/ drips[h].now - rate_limits[a] >= 60 * TicksPerSecond))
           => drips'[h].pc = "pending_limit"
        /\ (Leaves(h, "pending_limit") /\ Len(pending_txs) < MAX_PENDING_TXS)
           => drips'[h].pc = "genesis_hash"
        /\ (Leaves(h, "submit")
              /\ \A i \in 1..3 : /\ ~Failed(drips'[h].calls[i].reply)
                                 /\ drips'[h].calls[i].reply.result.t # "null")
           => drips'[h].pc = "record"
        /\ Leaves(h, "record")
           => /\ drips'[h].pc = "push"
              /\ a \in DOMAIN rate_limits'
              /\ rate_limits'[a] = drips[h].now
        /\ Leaves(h, "push")
           => /\ drips'[h].pc = "done"
              /\ drips'[h].response[1].status = 200
              /\ drips'[h].response[1].success
              /\ drips'[h].response[1].tx_hash # None
              /\ drips'[h].response[1].tx_hash[1] # ""]_vars

\* a drip to an address succeeded a second time, a full window after the first
C3_Witness ==
    /\ \E h \in Handlers : Done(h) /\ Status(h) = 200
    /\ \E i, j \in DOMAIN pending_txs :
          /\ i < j
          /\ pending_txs[i].to = pending_txs[j].to
          /\ pending_txs[j].timestamp - pending_txs[i].timestamp >= Window
          /\ pending_txs[j].timestamp > 0
          /\ rate_limits[pending_txs[j].to] = pending_txs[j].timestamp

\* C4 as stated: a request address that is not 48 characters starting with
\* '5', as the caller supplied it, is answered 400, calls no validator and
\* writes nothing.
C4_SuppliedAddressRefused ==
    \A h \in Handlers :
        (Done(h) /\ ~(StartsWith(drips[h].request, "5")
                        /\ CharLen(drips[h].request) = 48))
        => /\ Status(h) = 400
           /\ drips[h].calls = << >>
           /\ ~drips[h].wrote

\* C4, amended: a request whose address, with surrounding white space
\* removed, is not 48 bytes long starting with '5' is answered 400, calls no
\* validator and writes nothing.
C4_TrimmedAddressRefused ==
    \A h \in Handlers :
        LET address == Trim(drips[h].request) IN
        (drips[h].pc # "idle"
            /\ ~(address # << >> /\ address[1][1] = "5" /\ ByteLen(address) = 48))
        => /\ Done(h)
           /\ Status(h) = 400
           /\ ~drips[h].response[1].success
           /\ drips[h].calls = << >>
           /\ ~drips[h].wrote

\* an address of 48 bytes without the '5' and one of 48 characters in 49
\* bytes were refused 400
C4_Witness ==
    \A request \in {AddrNo5, AddrWide} :
        \E h \in Handlers :
            Done(h) /\ drips[h].request = request /\ Status(h) = 400

\* C5: when a call of the transfer submission fails in transport or is
\* answered with an "error" member, the request is answered 500 with the
\* upstream message in its text, and it changes neither the rate-limit map
\* nor the pending list.
C5_UpstreamFailure ==
    /\ [](\A h \in Handlers : \A i \in DOMAIN drips[h].calls :
            LET reply == drips[h].calls[i].reply IN
            Failed(reply)
            => /\ Done(h) /\ Status(h) = 500
               /\ i = Len(drips[h].calls)
               /\ drips[h].response[1].tx_hash = None
               /\ ~drips[h].wrote
               /\ drips[h].response[1].message =
                    "Failed to send transaction: " \o
                       (IF ~reply.ok THEN "error sending request"
                        ELSE "RPC error: " \o
                             (IF reply.error[1] = None
                              THEN IF i = 3 THEN "Unknown error" ELSE "Unknown"
                              ELSE reply.error[1][1])))
    /\ [][\A h \in Handlers :
            (~Done(h) /\ drips'[h].pc = "done" /\ drips'[h].response[1].status = 500)
            => (rate_limits' = rate_limits /\ pending_txs' = pending_txs)]_vars

\* one request was answered 500 after gateway_submit returned an error
\* member, another after gateway_genesisHash failed in transport
C5_Witness ==
    \E h, g \in Handlers :
        /\ Done(h) /\ Status(h) = 500
        /\ Len(drips[h].calls) = 3 /\ drips[h].calls[3].reply.error # None
        /\ Done(g) /\ Status(g) = 500
        /\ Len(drips[g].calls) = 1 /\ ~drips[g].calls[1].reply.ok

\* C6 as stated: a request that arrives once the pending list has reached
\* MAX_PENDING_TXS, for an address with no recorded drip, is answered 503
\* whether or not the address is valid.
C6_FullAnswers503 ==
    \A h \in Handlers :
        (Done(h) /\ drips[h].started_full
            /\ Trim(drips[h].request) \notin DOMAIN rate_limits)
        => Status(h) = 503

\* C6, amended: a request that arrives once the pending list has reached
\* MAX_PENDING_TXS is never answered 200 or 500: it is answered 400 when its
\* trimmed address is invalid and 503 when its address is valid with no
\* recorded drip, and it calls no validator.
C6_FullAnswers503IfValid ==
    \A h \in Handlers :
        LET address == Trim(drips[h].request)
            valid == address # << >> /\ address[1][1] = "5" /\ ByteLen(address) = 48
        IN  (Done(h) /\ drips[h].started_full)
            => /\ Status(h) \in {400, 429, 503}
               /\ Status(h) = 400 <=> ~valid
               /\ (valid /\ address \notin DOMAIN rate_limits) => Status(h) = 503
               /\ drips[h].calls = << >>

\* at capacity, a valid address that never had a drip was answered 503
C6_Witness ==
    \E h \in Handlers :
        /\ Done(h) /\ drips[h].started_full
        /\ drips[h].request = AddrM
        /\ AddrM \notin DOMAIN rate_limits
        /\ Status(h) = 503

\* C7: the pending list never holds more than MAX_PENDING_TXS entries.
C7_PendingBounded == Len(pending_txs) <= MAX_PENDING_TXS

\* C8: no step removes or alters an entry of the pending list, and a request
\* that arrives after the list has reached MAX_PENDING_TXS is never answered
\* 200.
C8_FullForever ==
    /\ [][/\ Len(pending_txs') >= Len(pending_txs)
          /\ SubSeq(pending_txs', 1, Len(pending_txs)) = pending_txs]_vars
    /\ [](\A h \in Handlers :
            (Done(h) /\ drips[h].started_full) => Status(h) # 200)

\* the list reached MAX_PENDING_TXS, and a request that came a full window
\* later for the address served before was answered 503
C8_Witness ==
    /\ Len(pending_txs) >= MAX_PENDING_TXS
    /\ \E h \in Handlers :
          /\ Done(h) /\ drips[h].started_full
          /\ drips[h].request = AddrA
          /\ rate_limits[AddrA] + Window <= clock
          /\ Status(h) = 503

(***************************************************************************)
(* Properties of the validator probes                                      *)
(***************************************************************************)
\* C9: validator selection probes the configured endpoints in list order,
\* returns the first whose system_health probe got a response with a success
\* status and probes none after it; when no probe succeeded it has probed
\* them all and returns the first configured endpoint.
C9_FirstResponder ==
    LET probes == startup.probes
        n == Len(probes)
    IN  /\ n <= Len(VALIDATORS)
        /\ \A k \in 1..n :
              /\ probes[k].url = VALIDATORS[k]
              /\ probes[k].method = "system_health"
              /\ k < n => probes[k].outcome # "success"
        /\ startup.pc = "find_active_validator"
              => (startup.i = n + 1 /\ (n > 0 => probes[n].outcome # "success"))
        /\ startup.pc = "serving"
              => IF n > 0 /\ probes[n].outcome = "success"
                 THEN active_validator = VALIDATORS[n]
                 ELSE n = Len(VALIDATORS) /\ active_validator = VALIDATORS[1]

\* the second endpoint was selected: the first answered with an error status,
\* the second with success, the third was not probed
C9_Witness ==
    /\ startup.pc = "serving"
    /\ Len(startup.probes) = 2
    /\ startup.probes[1].outcome = "http_error"
    /\ active_validator = VALIDATORS[2]

\* C10: the response of GET /health counts the configured validators whose
\* probe got a response with a success status, reports healthy exactly when
\* that count is positive, and has status 200 when healthy and 503 otherwise.
C10_HealthReport ==
    health.pc = "done" =>
        LET online == {k \in DOMAIN health.probes : health.probes[k].outcome = "success"}
            body == health.response[1]
        IN  /\ Len(health.probes) = Len(VALIDATORS)
            /\ \A k \in DOMAIN health.probes :
                  /\ health.probes[k].url = VALIDATORS[k]
                  /\ health.probes[k].method = "system_health"
            /\ body.validators_online = Cardinality(online)
            /\ body.healthy = (Cardinality(online) > 0)
            /\ health.status = 200 <=> body.healthy
            /\ health.status = 503 <=> ~body.healthy

\* with every validator unreachable the report is healthy:false, count 0, 503
C10_Witness ==
    /\ health.pc = "done"
    /\ \A k \in DOMAIN health.probes : health.probes[k].outcome = "send_error"
    /\ health.response[1] = [healthy |-> FALSE, validators_online |-> 0,
                             block_height |-> None]
    /\ health.status = 503

(***************************************************************************)
(* Properties of the transfer submission                                   *)
(***************************************************************************)
SubmissionMethods == <<"gateway_genesisHash", "gateway_nonce", "gateway_submit">>

\* the reply carries a result: it arrived, is JSON and has no "error" member
Answered(reply) == reply.ok /\ reply.error = None

\* step i of a submission succeeded with this reply
StepSucceeded(i, reply) ==
    /\ Answered(reply)
    /\ i = 1 => reply.result.t = "str"
    /\ i = 3 => (reply.result.t = "str" \/ reply.result.hash # None)

\* C11: the upstream calls of a transfer submission are gateway_genesisHash,
\* gateway_nonce, gateway_submit in this order, each at most once and added
\* one at a time; every call but the last one made has succeeded, and a
\* submission whose last call failed has ended with 500.
C11_CallOrder ==
    /\ [](\A h \in Handlers :
            LET calls == drips[h].calls IN
            /\ Len(calls) <= 3
            /\ \A i \in DOMAIN calls :
                  /\ calls[i].method = SubmissionMethods[i]
                  /\ i < Len(calls) => StepSucceeded(i, calls[i].reply)
                  /\ ~StepSucceeded(i, calls[i].reply)
                        => (i = Len(calls) /\ Done(h) /\ Status(h) = 500))
    /\ [][\A h \in Handlers :
            \/ drips'[h].calls = drips[h].calls
            \/ /\ Len(drips'[h].calls) = Len(drips[h].calls) + 1
               /\ SubSeq(drips'[h].calls, 1, Len(drips[h].calls)) = drips[h].calls]_vars

\* gateway_nonce was answered with an "error" member: the request ended with
\* 500 after two calls, gateway_submit was not sent
C11_Witness ==
    \E h \in Handlers :
        /\ Done(h) /\ Status(h) = 500
        /\ Len(drips[h].calls) = 2
        /\ drips[h].calls[1].method = "gateway_genesisHash"
        /\ drips[h].calls[2].method = "gateway_nonce"
        /\ drips[h].calls[2].reply.error # None

\* C12: the gateway_genesisHash step fails exactly when its result is not a
\* string: then the request ends with 500 after that one call; after a string
\* result of any length the submission goes on to the nonce and submit steps
\* and the request ends with 200 or 500.
C12_GenesisStringProceeds ==
    \A h \in Handlers :
        Len(drips[h].calls) >= 1 =>
            LET reply == drips[h].calls[1].reply
                isString == Answered(reply) /\ reply.result.t = "str"
            IN  /\ ~isString => (Done(h) /\ Status(h) = 500 /\ Len(drips[h].calls) = 1)
                /\ isString => \/ drips[h].pc \in {"nonce", "submit", "record", "push"}
                               \/ Done(h) /\ Status(h) \in {200, 500}

\* C13: the nonce sent in gateway_submit is the value gateway_nonce returned
\* when that is a non-negative integer, of any size, and 0 when the result is
\* missing or no number; the submission proceeds in both cases.
C13_NonceAsReturned ==
    \A h \in Handlers :
        LET calls == drips[h].calls IN
        /\ (Len(calls) = 2 /\ Answered(calls[2].reply)) => ~Done(h)
        /\ Len(calls) >= 3 =>
              LET result == calls[2].reply.result
                  sent == calls[3].params[1].nonce
              IN  IF result.t = "num"
                  THEN /\ sent[1] = result.n[1] /\ sent[2] = result.n[2]
                       /\ result.n[3] = 0 /\ result.n[4] = 0
                  ELSE sent = U32(0, 0)

(***************************************************************************)
(* Properties of the order of the checks of POST /drip                     *)
(***************************************************************************)
\* task h ends with this status in the step
Answers(h, code) == drips'[h].pc = "done" /\ drips'[h].response[1].status = code

\* C14: a drip request is validated, then checked against the rate limit,
\* then against the pending capacity, and only then calls the validator: a
\* request answered 400, 429 or 503 has made no upstream call, and a request
\* for a rate-limited address is answered 429 whatever the length of the
\* pending list.
C14_ChecksBeforeCalls ==
    /\ [](\A h \in Handlers :
            (Done(h) /\ Status(h) \in {400, 429, 503}) => drips[h].calls = << >>)
    /\ [][\A h \in Handlers :
            LET a == drips[h].address
                address == Trim(drips'[h].request)
                valid == address # << >> /\ address[1][1] = "5" /\ ByteLen(address) = 48
                limited == a \in DOMAIN rate_limits
                             /\ drips[h].now - rate_limits[a] < 60 * TicksPerSecond
                full == Len(pending_txs) >= MAX_PENDING_TXS
            IN  /\ Leaves(h, "idle")
                   => IF valid THEN drips'[h].pc = "rate_limit" ELSE Answers(h, 400)
                /\ Leaves(h, "rate_limit")
                   => IF limited THEN Answers(h, 429) ELSE drips'[h].pc = "pending_limit"
                /\ Leaves(h, "pending_limit")
                   => IF full THEN Answers(h, 503) ELSE drips'[h].pc = "genesis_hash"
                /\ drips'[h].calls # drips[h].calls
                   => drips[h].pc \in {"genesis_hash", "nonce", "submit"}
                /\ (drips[h].pc \in {"idle", "rate_limit", "pending_limit"})
                   => drips'[h].calls = << >>]_vars

\* with the pending list at MAX_PENDING_TXS, a request for an address still
\* inside its window was answered 429 and called no validator
C14_Witness ==
    \E h \in Handlers :
        /\ Done(h) /\ Status(h) = 429
        /\ drips[h].started_full
        /\ Len(pending_txs) >= MAX_PENDING_TXS
        /\ drips[h].calls = << >>

(***************************************************************************)
(* Properties of the rate-limit map                                        *)
(***************************************************************************)
\* C18: the time stored for an address never moves backwards: every write to
\* the rate-limit map keeps the entries it had and stores for each address a
\* time greater than or equal to the one it replaces.
C18_TimestampMonotone ==
    [][\A a \in DOMAIN rate_limits :
          /\ a \in DOMAIN rate_limits'
          /\ rate_limits'[a] >= rate_limits[a]]_vars

(***************************************************************************)
(* Properties of GET /health                                               *)
(***************************************************************************)
\* C16: during one health check chain_getHeader is requested at most once,
\* and only from the first validator, in list order, whose system_health
\* probe succeeded; when that request yields no block height none is
\* reported and no other validator is asked.
C16_HeaderFromFirstOnly ==
    LET online == {k \in DOMAIN health.probes : health.probes[k].outcome = "success"}
    IN  /\ Len(health.headers) <= 1
        /\ \A j \in DOMAIN health.headers :
              /\ health.headers[j].method = "chain_getHeader"
              /\ online # {}
              /\ \E k \in online : /\ \A m \in online : k <= m
                                   /\ health.headers[j].url = VALIDATORS[k]

\* C17: GET /health always ends with a response, 200 or 503, whatever
\* chain_getHeader returned; when result.number is not a "0x"-prefixed
\* hexadecimal number the response has no block height.
C17_HealthAlwaysResponds ==
    /\ health.pc \in {"idle", "probe", "header", "done"}
    /\ health.pc = "done" =>
          /\ health.response # None
          /\ health.status \in {200, 503}
          /\ (\A j \in DOMAIN health.headers :
                  LET number == health.headers[j].reply.result.number IN
                  number = None \/ Len(number[1]) < 3 \/ SubSeq(number[1], 1, 2) # "0x")
             => health.response[1].block_height = None

(***************************************************************************)
(* Properties of the selected validator                                    *)
(***************************************************************************)
\* C15: the selected validator is written once, by the step that ends
\* validator selection at startup; no step of a drip, status or health
\* request changes it, and every upstream call of every drip goes to it, also
\* after submissions to it have failed.
C15_ValidatorSetOnce ==
    /\ [](\A h \in Handlers : \A i \in DOMAIN drips[h].calls :
            drips[h].calls[i].url = active_validator)
    /\ [](status.pc = "done" => status.response[1].active_validator = active_validator)
    /\ [][/\ startup.pc = "serving" => active_validator' = active_validator
          /\ active_validator' # active_validator
                => (startup.pc = "find_active_validator" /\ startup'.pc = "serving")
          /\ startup.pc = "serving" => startup' = startup]_vars

\* the second validator was selected; a drip whose submission failed was
\* answered 500, another drip made all three calls to the same validator,
\* and a status and a health request were answered
C15_Witness ==
    /\ active_validator = VALIDATORS[2]
    /\ \E g, h \in Handlers :
          /\ Done(g) /\ Status(g) = 500 /\ Len(drips[g].calls) = 3
          /\ Done(h) /\ Status(h) = 200 /\ Len(drips[h].calls) = 3
          /\ \A i \in 1..3 : drips[h].calls[i].url = VALIDATORS[2]
    /\ status.pc = "done"
    /\ health.pc = "done"

(***************************************************************************)
(* Properties of the states with no drip in flight                         *)
(***************************************************************************)
\* no drip task is between its request and its response
Quiescent == \A h \in Handlers : drips[h].pc \in {"idle", "done", "panicked"}

\* the entries the pending list held when the faucet was first observed: a
\* list that starts with a drip older than the first clock value
RecordedBefore ==
    IF pending_txs # << >> /\ pending_txs[1].timestamp < 0 THEN MAX_PENDING_TXS - 1 ELSE 0

\* C19: when no drip is in flight, the pending list has grown by one entry
\* per request answered 200, to the trimmed address of that request; every
\* entry has amount DRIP_AMOUNT; the addresses with a rate-limit entry are the
\* recipients in the pending list; and the requests answered 400, 429, 503 or
\* 500 wrote to neither.
C19_QuiescentAccounting ==
    Quiescent =>
        LET served == {h \in Handlers : Done(h) /\ Status(h) = 200}
            added == {i \in DOMAIN pending_txs : i > RecordedBefore}
        IN  /\ Len(pending_txs) = RecordedBefore + Cardinality(served)
            /\ \A a \in {pending_txs[i].to : i \in added} :
                  Cardinality({i \in added : pending_txs[i].to = a})
                      = Cardinality({h \in served : Trim(drips[h].request) = a})
            /\ \A i \in DOMAIN pending_txs : pending_txs[i].amount = "10000000000000"
            /\ DOMAIN rate_limits = {pending_txs[i].to : i \in DOMAIN pending_txs}
            /\ \A h \in Handlers :
                  drips[h].pc # "idle" => (drips[h].wrote <=> h \in served)

\* no drip in flight: a request sent with surrounding white space was
\* answered 200 and filled the list, and a later one was answered 503
C19_Witness ==
    /\ Quiescent
    /\ Len(pending_txs) = MAX_PENDING_TXS
    /\ \E g, h \in Handlers :
          /\ Done(g) /\ Status(g) = 200 /\ drips[g].request = AddrPadded
          /\ Done(h) /\ Status(h) = 503

====
